---- MODULE Spec2Model ----
(***************************************************************************)
(* Moodify: the recommendation resolver (music_recommender.py) on top of   *)
(* the JioSaavn catalog client (song_service.py), the JSON file store      *)
(* (database.py), the mood analyzer (mood_analyzer.py) and the Streamlit   *)
(* script (app.py).                                                        *)
(*                                                                         *)
(* Spec: one behaviour is one call recommend_songs(mood, limit).           *)
(* SearchSpec: one call search_songs_by_mood on its own.  PhraseSpec: the  *)
(* lookup of a mood's query phrases.  DbSpec: calls of the store's         *)
(* methods on its two files, one call at a time.  ConcSpec: the save       *)
(* calls of two sessions, their file reads and writes interleaved.         *)
(* AppSpec: script runs of app.py over the session state.                  *)
(*                                                                         *)
(* In Spec the oracle                                                      *)
(* (Gemini) and the catalog provider are the environment: what they        *)
(* answer is chosen freely at the step that reads it.  The array the       *)
(* oracle returns and the result list of one HTTP response are read by     *)
(* for loops; they are revealed one element per loop iteration, which for  *)
(* a sequential scan is the same as fixing the whole list beforehand.      *)
(***************************************************************************)
EXTENDS Integers, Sequences, FiniteSets, TLC

\* ------------------------------------------------------------------ bounds
\* largest limit (count) recommend_songs is called with
MaxLimit == 2
\* most songs in the result list of one HTTP search response
MaxResults == 1
\* most songs in the result list of one response when the catalog client is
\* called on its own
MaxBatch == 2
\* most elements in the array the oracle returns
MaxCands == 4

\* ------------------------------------------------------------ static tables
MoodLabels == {"Happy", "Sad", "Angry", "Anxious", "Relaxed", "Neutral"}

\* the moods recommend_songs is called with here: one of the six labels (the
\* tables have the same shape for all six) and one text outside them (the
\* oracle's answer is passed on unvalidated)
Moods == {"Happy", "Excited"}

\* music_recommender.py, _generate_song_recommendations_with_gemini
mood_queries ==
  [ Happy   |-> <<"popular happy songs indian", "upbeat bollywood songs", "cheerful hindi songs">>,
    Sad     |-> <<"emotional bollywood songs", "sad hindi songs", "melancholy indian music">>,
    Angry   |-> <<"intense indian songs", "powerful bollywood tracks", "aggressive hindi music">>,
    Anxious |-> <<"calming indian songs", "soothing bollywood music", "peaceful hindi tracks">>,
    Relaxed |-> <<"chill bollywood songs", "relaxing indian music", "peaceful hindi songs">>,
    Neutral |-> <<"popular bollywood hits", "trending indian songs", "classic hindi tracks">> ]

\* music_recommender.py, _get_direct_playable_songs
mood_specific_queries ==
  [ Happy   |-> <<"popular happy songs indian", "upbeat bollywood hits", "cheerful hindi songs", "feel good tamil songs">>,
    Sad     |-> <<"emotional bollywood songs", "sad hindi hits", "melancholy indian music", "heartbreak songs tamil">>,
    Angry   |-> <<"powerful bollywood tracks", "intense hindi songs", "aggressive indian music", "rap hindi songs">>,
    Anxious |-> <<"calming indian songs", "soothing bollywood music", "peaceful hindi tracks", "meditation music india">>,
    Relaxed |-> <<"chill bollywood songs", "relaxing indian music", "peaceful hindi songs", "soft tamil melodies">>,
    Neutral |-> <<"trending bollywood songs", "top hindi hits", "popular indian songs 2024", "viral indian music">> ]

\* song_service.py, search_songs_by_mood
saavn_mood_queries ==
  [ Happy   |-> <<"upbeat happy songs", "feel good indian songs", "cheerful bollywood hits">>,
    Sad     |-> <<"sad emotional songs", "heartbreak bollywood", "melancholy hindi songs">>,
    Angry   |-> <<"powerful indian songs", "intense hindi tracks", "energetic bollywood">>,
    Anxious |-> <<"calming indian songs", "peaceful hindi music", "soothing bollywood">>,
    Relaxed |-> <<"chill relaxing songs", "peaceful indian classical", "soft bollywood melodies">>,
    Neutral |-> <<"popular hindi songs", "trending indian music", "top bollywood hits">> ]

generic_query == "popular bollywood songs"

\* mood_queries.get(mood, ["popular indian songs"])
SupplementQueries(m) ==
  IF m \in DOMAIN mood_queries THEN mood_queries[m] ELSE <<"popular indian songs">>

\* mood_specific_queries.get(mood, ["popular bollywood songs"])
DirectQueries_nodefault(m) ==
  IF m \in DOMAIN mood_specific_queries THEN mood_specific_queries[m] ELSE <<>>
DirectQueries(m) ==
  IF m \in DOMAIN mood_specific_queries THEN mood_specific_queries[m]
  ELSE <<"popular bollywood songs">>

\* all_queries of search_songs_by_mood: the three expanded queries for a bare
\* mood keyword, the query itself otherwise
AllQueries(q) ==
  IF q \in DOMAIN saavn_mood_queries THEN saavn_mood_queries[q] ELSE <<q>>

\* per-call search limits of the three resolver loops
VerifyLimit == 2
SupplementLimit == 3
DirectLimit == 5

\* --------------------------------------------------- provider's raw payloads
\* str.lower() on the words the model uses
Lower(w) ==
  CASE w = "Tum" -> "tum"
    [] w = "TUM" -> "tum"
    [] w = "Hey" -> "hey"
    [] w = "Arijit" -> "arijit"
    [] w = "Unknown Artist" -> "unknown artist"
    [] OTHER -> w

Names == {"Tum", "TUM", "Hey", ""}

\* downloadUrl of a raw search result: absent, or two quality tiers
NoDownloadUrl == <<>>
TwoTiers == << [quality |-> "96kbps", url |-> "u96"], [quality |-> "320kbps", url |-> "u320"] >>

\* what GET /songs/{id} answers for the song, were it asked
DetailResponses ==
  { [ok |-> FALSE, success |-> FALSE, downloadUrl |-> <<>>],
    [ok |-> TRUE,  success |-> TRUE,  downloadUrl |-> << [quality |-> "", url |-> "u0"] >>],
    [ok |-> TRUE,  success |-> TRUE,  downloadUrl |-> TwoTiers] }

NoDetail == [ok |-> FALSE, success |-> FALSE, downloadUrl |-> <<>>]

\* one element of data.results together with the provider's answer to the
\* detail request for it; the detail answer only varies where it can be read
RawSongs ==
  { s \in [ id : {"", "s1"}, name : Names, artists : {<<"Arijit">>},
            downloadUrl : {NoDownloadUrl, TwoTiers}, detail : DetailResponses ] :
      /\ (s.downloadUrl # NoDownloadUrl) => (s.id = "s1" /\ s.detail = NoDetail)
      /\ (s.id = "") => (s.detail = NoDetail) }

\* ------------------------------------------------------------ catalog client
RECURSIVE JoinNames(_)
JoinNames(as) ==
  IF as = <<>> THEN ""
  ELSE IF Len(as) = 1 THEN as[1]
  ELSE as[1] \o ", " \o JoinNames(Tail(as))

RECURSIVE FirstWithQuality(_, _)
\* first url of the entries whose quality is q, "" when there is none
FirstWithQuality(urls, q) ==
  IF urls = <<>> THEN ""
  ELSE IF urls[1].quality = q THEN urls[1].url
  ELSE FirstWithQuality(Tail(urls), q)

\* _format_songs, for one raw song
format_song(raw) ==
  LET best == FirstWithQuality(raw.downloadUrl, "320kbps")
      stream == IF raw.downloadUrl = <<>> THEN ""
                ELSE IF best # "" THEN best
                ELSE raw.downloadUrl[1].url
  IN [ id |-> raw.id,
       title |-> raw.name,
       artist |-> IF raw.artists = <<>> THEN "Unknown Artist" ELSE JoinNames(raw.artists),
       stream_url |-> stream,
       mood_match |-> "",
       src |-> "catalog" ]

\* get_song_details: data["data"] on success, {} otherwise
get_song_details(detail) ==
  IF detail.ok /\ detail.success THEN detail.downloadUrl ELSE <<>>

RECURSIVE FirstUsable(_)
\* first url_obj with both a quality and a url, "" when there is none
FirstUsable(urls) ==
  IF urls = <<>> THEN ""
  ELSE IF urls[1].quality # "" /\ urls[1].url # "" THEN urls[1].url
  ELSE FirstUsable(Tail(urls))

\* mutant of NeedsDetail: the id test is dropped
NeedsDetail_noid(song) == song.stream_url = ""

\* the detail request is made for a song without stream_url that has an id
NeedsDetail(song) == song.stream_url = "" /\ song.id # ""

\* the streamability step of search_songs_by_mood for one formatted song
with_stream_url(song, detail) ==
  IF NeedsDetail(song)
  THEN LET u == FirstUsable(get_song_details(detail))
       IN IF u # "" THEN [song EXCEPT !.stream_url = u] ELSE song
  ELSE song

\* f"{title} {artist}".lower()
SongKey(song) == Lower(song.title) \o " " \o Lower(song.artist)

KeysOf(songs) == { SongKey(songs[i]) : i \in 1..Len(songs) }

\* songs[:n]
Take(songs, n) == SubSeq(songs, 1, IF n < Len(songs) THEN n ELSE Len(songs))


\* a track the resolver accepts: stream_url and title both non-empty
Playable(song) == song.stream_url # "" /\ song.title # ""

\* mutant of HasStream: the stream url test is dropped
HasStream_any(song) == TRUE

\* the filter of search_songs_by_mood: only songs with a stream url are added
HasStream(song) == song.stream_url # ""

\* ---------------------------------------------------------------- oracle
\* what generate_content / json.loads produce: the call raises, the text is
\* no JSON, the text is JSON but no array, or the text holds an array
OracleOutcomes == {"raise", "notjson", "scalar", "list"}

\* an element of the oracle's array; Malformed lacks "title" or "artist"
Candidates == [ title : {"Tum", "TUM", "Hey"}, artist : {"Arijit"}, mood_match : {"", "fits"} ]
Malformed == [ title |-> "", artist |-> "", mood_match |-> "missing-key" ]

\* request_limit = limit * 3: the number of candidates the prompt asks for
request_limit(lim) == lim * 3

\* search_query = f"{song['title']} {song['artist']}"
CandQuery(c) == c.title \o " " \o c.artist
\* normalized_title = search_query.lower()
CandKey(c) == Lower(c.title) \o " " \o Lower(c.artist)

\* ------------------------------------------------------------- exceptions
\* mutant of search_catches: the except clause is missing
search_catches_none(e) == FALSE

\* except requests.exceptions.RequestException (song_service.py)
search_catches(e) == e = "RequestException"
\* except json.JSONDecodeError (inner try of the AI step)
json_catches(e) == e = "JSONDecodeError"
\* mutant of gemini_catches: the outer try of the AI step has no handler
gemini_catches_none(e) == FALSE

\* except Exception (outer try of the AI step)
gemini_catches(e) == TRUE
\* except Exception (recommend_songs)
recommend_catches(e) == TRUE

\* where an exception raised at a site of recommend_songs is handled:
\* "json"/"exc" are the two handlers of the AI step (both run the direct
\* cascade), "main" is the fall-through of recommend_songs after its own
\* handler, "raise" leaves recommend_songs
HandlerFor(e, site) ==
  CASE site = "inner" ->
         IF json_catches(e) THEN "json"
         ELSE IF gemini_catches(e) THEN "exc"
         ELSE IF recommend_catches(e) THEN "main" ELSE "raise"
    [] site \in {"call", "json"} ->
         IF gemini_catches(e) THEN "exc"
         ELSE IF recommend_catches(e) THEN "main" ELSE "raise"
    [] site \in {"exc", "outer"} ->
         IF recommend_catches(e) THEN "main" ELSE "raise"
    [] OTHER -> "raise"

\* ------------------------------------------------------------------ state
VARIABLES
  mood, limit, hasClient,        \* arguments; gemini_client configured or not
  pc,                            \* position in recommend_songs
  oracle,                        \* outcome of the oracle call, "none" before
  nCands,                        \* elements of the oracle's array consumed
  nVerify,                       \* history: verification searches of the running candidate loop
  nDropped,                      \* history: tracks the candidate loop held when it raised
  cand,                          \* <<candidate>> being verified, or <<>>
  verified_songs, unique_titles, \* locals of the AI step / the direct cascade
  gemini_songs,                  \* what the AI step returned to recommend_songs
  dLimit, dCtx,                  \* limit and caller of the running direct cascade
  qIdx,                          \* index of the phrase being searched
  result, outcome,               \* returned list; "running"/"returned"/"raised"
  sPc, sLimit, sQueue,           \* search_songs_by_mood: position, limit, queries left
  all_found_songs,               \* search_songs_by_mood: songs collected
  sSeen,                         \* results of the current response consumed
  sReqs,                         \* search requests issued by the current call
  lastSong,                      \* history: what the song steps of the current response saw and did
  sFailed,                       \* history: search requests of the current call that failed
  anyResults,                    \* history: some response contained a song
  stages,                        \* history: the stages that called search_songs_by_mood
  cascadeSaw,                    \* history: what the direct cascade's searches returned
  conversations_file,            \* database.py: content of data/conversations.json
  recommendations_file,          \* database.py: content of data/recommendations.json
  dbCall,                        \* history: <<the last Database call and its outcome>>
  savers,                        \* database.py: the save calls of concurrent sessions, by session
  now,                           \* app.py: the wall clock, in ticks of 30 seconds
  page, messages, start_time,    \* app.py: st.session_state
  analysis_done,
  session_mood, recommendations, \* app.py: st.session_state.mood / .recommendations
  appCall                        \* history: <<what the last block of app.py did>>

inputs == <<mood, limit, hasClient>>
searchVars == <<sPc, sLimit, sQueue, all_found_songs, sSeen, sReqs, lastSong, sFailed>>
loopVars == <<pc, verified_songs, unique_titles, dLimit, dCtx, qIdx>>
aiVars == <<oracle, nCands, cand, nVerify, nDropped>>
dbVars == <<conversations_file, recommendations_file, dbCall, savers>>
appVars == <<now, page, messages, start_time, analysis_done, session_mood,
             recommendations, appCall>>
\* what a call of recommend_songs never touches
outside == <<dbVars, appVars>>
resolverVars == <<mood, limit, hasClient, pc, oracle, nCands, nVerify, nDropped, cand, verified_songs,
                  unique_titles, gemini_songs, dLimit, dCtx, qIdx, result, outcome,
                  sPc, sLimit, sQueue, all_found_songs, sSeen, sReqs, lastSong,
                  sFailed, anyResults, stages, cascadeSaw>>
vars == <<resolverVars, dbVars, appVars>>

\* ------------------------------------------------------------- database.py
\* most records the two files hold together
MaxRecords == 3

\* st.session_state.user_id is always "default_user"; the Database methods
\* take any user_id
Users == {"default_user", "guest"}

\* the wall-clock instants datetime.now() returns here: second and
\* microsecond of 2024-01-01 10:00
Times == { [s |-> 9, us |-> 0], [s |-> 9, us |-> 5], [s |-> 10, us |-> 0] }

Digit(n) == SubSeq("0123456789", n + 1, n + 1)

\* datetime.isoformat(): the microseconds are left out when they are zero
isoformat(t) ==
  "2024-01-01T10:00:" \o Digit(t.s \div 10) \o Digit(t.s % 10)
    \o (IF t.us = 0 THEN "" ELSE ".00000" \o Digit(t.us))

\* the value of a digit character
DigitValue(c) == CHOOSE n \in 0..9 : Digit(n) = c

\* datetime.fromisoformat() on the strings isoformat() writes
fromisoformat(str) ==
  [ s  |-> 10 * DigitValue(SubSeq(str, 18, 18)) + DigitValue(SubSeq(str, 19, 19)),
    us |-> IF Len(str) > 19 THEN DigitValue(SubSeq(str, 26, 26)) ELSE 0 ]

\* the code point order of the characters of a timestamp
CodePointOrder == "-.0123456789:T"
Ord(c) == CHOOSE i \in 1..Len(CodePointOrder) : SubSeq(CodePointOrder, i, i) = c

\* a < b for Python strings
RECURSIVE StrLess(_, _)
StrLess(a, b) ==
  IF b = "" THEN FALSE
  ELSE IF a = "" THEN TRUE
  ELSE IF SubSeq(a, 1, 1) = SubSeq(b, 1, 1)
       THEN StrLess(SubSeq(a, 2, Len(a)), SubSeq(b, 2, Len(b)))
       ELSE Ord(SubSeq(a, 1, 1)) < Ord(SubSeq(b, 1, 1))

\* a file of the data directory: its text is valid JSON holding the list
\* data, or it is not valid JSON (empty or cut short)
ValidFile(data) == [valid |-> TRUE, data |-> data]
BrokenFile == [valid |-> FALSE, data |-> <<>>]

\* what a write can do: succeed; fail in open(), the file untouched; fail in
\* json.dump() after open(file, "w") has truncated the file
WriteOutcomes == {"ok", "open_fails", "dump_fails"}

\* _read_json_file: the list of the file, [] when open() or json.load() raises
read_json_file(file, io_fails) ==
  IF io_fails \/ ~file.valid THEN <<>> ELSE file.data

\* whether _read_json_file went through its except branch
read_failed(file, io_fails) == io_fails \/ ~file.valid

\* the file after _write_json_file(file_path, data)
write_json_file(file, data, w) ==
  IF w = "ok" THEN ValidFile(data)
  ELSE IF w = "open_fails" THEN file
  ELSE BrokenFile

\* what _write_json_file returns
write_returns(w) == w = "ok"

\* the record save_conversation appends
conversation_record(user_id, msgs, t) ==
  [user_id |-> user_id, messages |-> msgs, timestamp |-> isoformat(t)]

\* the record save_recommendation appends
recommendation_record(user_id, m, recs, t) ==
  [user_id |-> user_id, mood |-> m, recommendations |-> recs, timestamp |-> isoformat(t)]

\* list.sort(key=timestamp, reverse=True): descending and stable, an element
\* goes behind the elements whose key is not smaller
RECURSIVE InsertDesc(_, _)
InsertDesc(x, sorted) ==
  IF sorted = <<>> THEN <<x>>
  ELSE IF StrLess(Head(sorted).timestamp, x.timestamp) THEN <<x>> \o sorted
  ELSE <<Head(sorted)>> \o InsertDesc(x, Tail(sorted))

RECURSIVE SortNewestFirst(_)
SortNewestFirst_unsorted(recs) == recs
SortNewestFirst(recs) ==
  IF recs = <<>> THEN <<>>
  ELSE InsertDesc(recs[Len(recs)], SortNewestFirst(SubSeq(recs, 1, Len(recs) - 1)))

\* get_user_history: filter by user_id, sort, convert the timestamps of the
\* first lim records back to datetime, return the first lim records
get_user_history(file, user_id, lim, io_fails) ==
  LET recs == read_json_file(file, io_fails)
      user_recs == SortNewestFirst(SelectSeq(recs, LAMBDA r : r.user_id = user_id))
      first == Take(user_recs, lim)
  IN [i \in 1..Len(first) |->
        [first[i] EXCEPT !.timestamp = fromisoformat(first[i].timestamp)]]

\* the state Database.__init__ leaves on a fresh data directory
\* the sessions that call the store concurrently
Sessions == {"a", "b"}

\* the user_id each session saves under
SessionUser == [a |-> "default_user", b |-> "guest"]

\* a session that is in no save call
NoSaver ==
  [ pc |-> "idle", op |-> "none", record |-> <<>>, read_failed |-> FALSE,
    data |-> <<>>, returned |-> FALSE ]

StoreInit ==
  /\ conversations_file = ValidFile(<<>>)
  /\ recommendations_file = ValidFile(<<>>)
  /\ dbCall = <<>>
  /\ savers = [p \in Sessions |-> NoSaver]

\* --------------------------------------------------------- mood_analyzer.py
Whitespace == {" ", "\n", "\t"}

\* str.strip()
RECURSIVE lstrip(_)
lstrip(s) ==
  IF s # "" /\ SubSeq(s, 1, 1) \in Whitespace THEN lstrip(SubSeq(s, 2, Len(s))) ELSE s

RECURSIVE rstrip(_)
rstrip(s) ==
  IF s # "" /\ SubSeq(s, Len(s), Len(s)) \in Whitespace
  THEN rstrip(SubSeq(s, 1, Len(s) - 1))
  ELSE s

strip(s) == lstrip(rstrip(s))

\* what generate_content can do: raise, answer without text (response.text
\* is None), or answer with a text
MoodTexts == MoodLabels \cup {" Happy\n", "Excited", ""}
MoodReplies ==
  {[kind |-> "raise", text |-> ""], [kind |-> "no_text", text |-> ""]}
    \cup {[kind |-> "text", text |-> t] : t \in MoodTexts}

default_mood == "Neutral"

\* analyze_mood(conversation) with self.client set or None and the oracle
\* answering reply: every exception of the call is caught
analyze_mood_nostrip(client, reply) ==
  IF client /\ reply.kind = "text" THEN reply.text ELSE default_mood
analyze_mood(client, reply) ==
  IF client /\ reply.kind = "text" THEN strip(reply.text) ELSE default_mood

\* --------------------------------------------------------------- app.py
\* most messages a session holds
MaxMessages == 4
\* last tick of the clock
MaxClock == 4
\* timedelta(minutes=1) in ticks
OneMinute == 2

\* the lists recommend_songs(mood) hands to the chat turn: none or one track
RecommendOutcomes ==
  { <<>>,
    << [ id |-> "s1", title |-> "Tum", artist |-> "Arijit", stream_url |-> "u320",
         mood_match |-> "", src |-> "catalog" ] >> }

\* the chat reply generate_content gives: a text, or an exception (also when
\* mood_analyzer.client is None), answered by one of the canned replies
ChatReplies == {"reply", "raise"}

\* the name db is bound nowhere in app.py (the module imports streamlit,
\* datetime, time, MoodAnalyzer, MusicRecommender, os, dotenv, random and
\* logging): evaluating it raises NameError
db_lookup == "NameError"

\* st.session_state after lines 26-35 of the first script run
SessionInit ==
  /\ now = 0
  /\ page = "home"
  /\ messages = <<>>
  /\ start_time = <<>>
  /\ analysis_done = FALSE
  /\ session_mood = <<>>
  /\ recommendations = <<>>
  /\ appCall = <<>>

\* the locals of recommend_songs and of the catalog client before any call
ResolverRest ==
  /\ oracle = "none"
  /\ nCands = 0
  /\ nVerify = 0
  /\ nDropped = 0
  /\ cand = <<>>
  /\ verified_songs = <<>>
  /\ unique_titles = {}
  /\ gemini_songs = <<>>
  /\ dLimit = 0
  /\ qIdx = 0
  /\ result = <<>>
  /\ outcome = "running"
  /\ sPc = "idle"
  /\ sLimit = 0
  /\ sQueue = <<>>
  /\ all_found_songs = <<>>
  /\ sSeen = 0
  /\ sReqs = 0
  /\ lastSong = <<>>
  /\ sFailed = 0
  /\ anyResults = FALSE
  /\ stages = {}
  /\ cascadeSaw = "nothing"

\* recommend_songs is not running
ResolverIdle ==
  /\ mood = "Neutral"
  /\ limit = 1
  /\ pc = "idle"
  /\ dCtx = "none"
  /\ ResolverRest

Init ==
  /\ mood \in Moods
  /\ limit \in 1..MaxLimit
  /\ hasClient \in BOOLEAN
  /\ pc = "start"
  /\ oracle = "none"
  /\ nCands = 0
  /\ nVerify = 0
  /\ nDropped = 0
  /\ cand = <<>>
  /\ verified_songs = <<>>
  /\ unique_titles = {}
  /\ gemini_songs = <<>>
  /\ dLimit = 0
  /\ dCtx = "none"
  /\ qIdx = 0
  /\ result = <<>>
  /\ outcome = "running"
  /\ sPc = "idle"
  /\ sLimit = 0
  /\ sQueue = <<>>
  /\ all_found_songs = <<>>
  /\ sSeen = 0
  /\ sReqs = 0
  /\ lastSong = <<>>
  /\ sFailed = 0
  /\ anyResults = FALSE
  /\ stages = {}
  /\ cascadeSaw = "nothing"
  /\ StoreInit
  /\ SessionInit

\* ------------------------------------------------- search_songs_by_mood
\* entry of search_songs_by_mood(q, lim), called by the given stage
StartSearch(q, lim, stage) ==
  /\ sPc' = "request"
  /\ sLimit' = lim
  /\ sQueue' = AllQueries(q)
  /\ all_found_songs' = <<>>
  /\ sSeen' = 0
  /\ sReqs' = 0
  /\ lastSong' = <<>>
  /\ sFailed' = 0
  /\ stages' = stages \cup {stage}

\* the frame of search_songs_by_mood is dropped once its caller has the list
EndSearch ==
  /\ sPc' = "idle"
  /\ sLimit' = 0
  /\ sQueue' = <<>>
  /\ all_found_songs' = <<>>
  /\ sSeen' = 0
  /\ sReqs' = 0
  /\ lastSong' = <<>>
  /\ sFailed' = 0
  /\ UNCHANGED stages

\* after one query of all_queries: the loop's break test, then the test that
\* guards the generic query
AfterQuery_nogeneric(found, queue, lim) ==
  IF Len(found) >= lim THEN "return"
  ELSE IF queue # <<>> THEN "request"
  ELSE "return"
AfterQuery(found, queue, lim) ==
  IF Len(found) >= lim THEN "return"
  ELSE IF queue # <<>> THEN "request"
  ELSE "generic"

\* return all_found_songs[:limit]
SearchResult == Take(all_found_songs, sLimit)


\* ------------------------------------------------------- resolver fragments
\* recommend_songs returns songs
Finish(songs) ==
  /\ pc' = "done"
  /\ result' = songs
  /\ outcome' = "returned"
  /\ verified_songs' = <<>>
  /\ unique_titles' = {}
  /\ dLimit' = 0
  /\ dCtx' = "none"
  /\ qIdx' = 0
  /\ EndSearch

\* an exception leaves recommend_songs
Raised ==
  /\ pc' = "done"
  /\ result' = <<>>
  /\ outcome' = "raised"
  /\ verified_songs' = <<>>
  /\ unique_titles' = {}
  /\ dLimit' = 0
  /\ dCtx' = "none"
  /\ qIdx' = 0
  /\ EndSearch

\* mutant of DirectStart: the cascade goes on with the caller's lists
DirectStart_keep(lim, ctx) ==
  /\ pc' = "direct"
  /\ UNCHANGED <<verified_songs, unique_titles>>
  /\ dLimit' = lim
  /\ dCtx' = ctx
  /\ qIdx' = 1
  /\ StartSearch(DirectQueries(mood)[1], DirectLimit, "direct")
  /\ UNCHANGED <<result, outcome>>

\* entry of _get_direct_playable_songs(mood, lim) called from ctx, up to its
\* first search (lim >= 1 and the phrase list is never empty)
DirectStart(lim, ctx) ==
  /\ pc' = "direct"
  /\ verified_songs' = <<>>
  /\ unique_titles' = {}
  /\ dLimit' = lim
  /\ dCtx' = ctx
  /\ qIdx' = 1
  /\ StartSearch(DirectQueries(mood)[1], DirectLimit, "direct")
  /\ UNCHANGED <<result, outcome>>

\* an exception e raised at site: control goes to the handler that catches it
Throw(e, site) ==
  IF HandlerFor(e, site) = "raise" THEN Raised
  ELSE DirectStart(limit, HandlerFor(e, site))

\* the site a running search_songs_by_mood call was made from
SearchSite ==
  IF pc \in {"verify", "supp"} THEN "inner"
  ELSE IF pc = "direct" THEN dCtx
  ELSE "main"

\* mutant of GeminiReturn: len(gemini_songs) > limit in place of >=
GeminiReturn_gt(songs) ==
  /\ gemini_songs' = songs
  /\ IF songs # <<>> /\ Len(songs) > limit THEN Finish(songs)
     ELSE IF songs # <<>> THEN DirectStart(IF limit > Len(songs) THEN limit - Len(songs) ELSE 1, "outer")
     ELSE DirectStart(limit, "main")

\* recommend_songs, lines 42-65 and the fall-through to line 70: what it does
\* with the list the AI step returned
GeminiReturn(songs) ==
  /\ gemini_songs' = songs
  /\ IF songs # <<>> /\ Len(songs) >= limit THEN Finish(songs)
     ELSE IF songs # <<>> THEN DirectStart(limit - Len(songs), "outer")
     ELSE DirectStart(limit, "main")

RECURSIVE AddPlayable_nobreak(_, _, _, _, _)
\* mutant of AddPlayable: the break at lim is missing
AddPlayable_nobreak(songs, acc, uniq, lim, tag) ==
  IF songs = <<>> THEN [songs |-> acc, unique |-> uniq]
  ELSE IF Playable(Head(songs)) /\ SongKey(Head(songs)) \notin uniq
       THEN AddPlayable_nobreak(Tail(songs), Append(acc, [Head(songs) EXCEPT !.src = tag]),
                                uniq \cup {SongKey(Head(songs))}, lim, tag)
       ELSE AddPlayable_nobreak(Tail(songs), acc, uniq, lim, tag)

RECURSIVE AddPlayable_inverted(_, _, _, _, _)
\* mutant of AddPlayable: "in unique_titles" in place of "not in"
AddPlayable_inverted(songs, acc, uniq, lim, tag) ==
  IF songs = <<>> THEN [songs |-> acc, unique |-> uniq]
  ELSE IF Playable(Head(songs)) /\ SongKey(Head(songs)) \in uniq
       THEN LET acc2 == Append(acc, [Head(songs) EXCEPT !.src = tag])
            IN IF Len(acc2) >= lim THEN [songs |-> acc2, unique |-> uniq]
               ELSE AddPlayable_inverted(Tail(songs), acc2, uniq, lim, tag)
       ELSE AddPlayable_inverted(Tail(songs), acc, uniq, lim, tag)

RECURSIVE AddPlayable_prepend(_, _, _, _, _)
\* mutant of AddPlayable: a new song is inserted at the front of the list
AddPlayable_prepend(songs, acc, uniq, lim, tag) ==
  IF songs = <<>> THEN [songs |-> acc, unique |-> uniq]
  ELSE IF Playable(Head(songs)) /\ SongKey(Head(songs)) \notin uniq
       THEN LET acc2 == <<[Head(songs) EXCEPT !.src = tag]>> \o acc
                uniq2 == uniq \cup {SongKey(Head(songs))}
            IN IF Len(acc2) >= lim THEN [songs |-> acc2, unique |-> uniq2]
               ELSE AddPlayable_prepend(Tail(songs), acc2, uniq2, lim, tag)
       ELSE AddPlayable_prepend(Tail(songs), acc, uniq, lim, tag)

RECURSIVE AddPlayable(_, _, _, _, _)
\* the inner for loop of the supplement stage and of the direct cascade:
\* append the playable songs whose key is new, stop at lim
AddPlayable(songs, acc, uniq, lim, tag) ==
  IF songs = <<>> THEN [songs |-> acc, unique |-> uniq]
  ELSE IF Playable(Head(songs)) /\ SongKey(Head(songs)) \notin uniq
       THEN LET acc2 == Append(acc, [Head(songs) EXCEPT !.src = tag])
                uniq2 == uniq \cup {SongKey(Head(songs))}
            IN IF Len(acc2) >= lim THEN [songs |-> acc2, unique |-> uniq2]
               ELSE AddPlayable(Tail(songs), acc2, uniq2, lim, tag)
       ELSE AddPlayable(Tail(songs), acc, uniq, lim, tag)

\* mutant of FirstPlayable: only the first result of the search is looked at
FirstPlayable_head(songs) ==
  IF songs # <<>> /\ Playable(Head(songs)) THEN <<Head(songs)>> ELSE <<>>

RECURSIVE FirstPlayable(_)
\* the verification loop: the first result with stream_url and title
FirstPlayable(songs) ==
  IF songs = <<>> THEN <<>>
  ELSE IF Playable(Head(songs)) THEN <<Head(songs)>>
  ELSE FirstPlayable(Tail(songs))

RECURSIVE Combine_nodedup(_, _, _)
\* mutant of Combine: the key test is missing
Combine_nodedup(combined, direct, lim) ==
  IF direct = <<>> THEN combined
  ELSE IF Len(combined) + 1 >= lim THEN Append(combined, Head(direct))
  ELSE Combine_nodedup(Append(combined, Head(direct)), Tail(direct), lim)

RECURSIVE Combine(_, _, _)
\* recommend_songs, lines 52-63: append the direct songs whose key is not
\* among the songs already combined, stop at lim
Combine(combined, direct, lim) ==
  IF direct = <<>> THEN combined
  ELSE IF SongKey(Head(direct)) \notin KeysOf(combined)
       THEN IF Len(combined) + 1 >= lim THEN Append(combined, Head(direct))
            ELSE Combine(Append(combined, Head(direct)), Tail(direct), lim)
       ELSE Combine(combined, Tail(direct), lim)

\* mutant of LastResortFilter: the mock data of the mood is returned when
\* nothing is playable
LastResortFilter_mock(songs) ==
  IF SelectSeq(songs, HasStream) = <<>>
  THEN << [ id |-> "", title |-> "Happy", artist |-> "Pharrell Williams",
            stream_url |-> "", mood_match |-> "", src |-> "last" ] >>
  ELSE LET kept == SelectSeq(songs, HasStream)
       IN [i \in 1..Len(kept) |-> [kept[i] EXCEPT !.src = "last"]]

\* playable_songs = [song for song in saavn_songs if song.get("stream_url")]
LastResortFilter(songs) ==
  LET kept == SelectSeq(songs, HasStream)
  IN [i \in 1..Len(kept) |-> [kept[i] EXCEPT !.src = "last"]]

\* history record of one song step: whether the raw song had a downloadUrl
\* and an id, whether it was skipped as a duplicate, whether the detail
\* request was made, whether it failed, whether the detail answer holds a
\* usable url, and whether the song was added to all_found_songs
SongStep(raw, skipped, fetched, added) ==
  [ rawUrl |-> raw.downloadUrl # NoDownloadUrl,
    skipped |-> skipped,
    hasId |-> raw.id # "",
    fetched |-> fetched,
    failed |-> fetched /\ ~raw.detail.ok,
    usable |-> FirstUsable(get_song_details(raw.detail)) # "",
    added |-> added ]

\* -------------------------------------------- actions: search_songs_by_mood
\* the songs a response can hold
BatchBound == IF pc = "client" THEN MaxBatch ELSE MaxResults

\* one GET /search/songs for the next query of all_queries
SearchRequest ==
  /\ sPc = "request"
  /\ \E resp \in {"fail", "nosuccess", "results"} :
       IF resp = "fail" /\ ~search_catches("RequestException")
       THEN /\ Throw("RequestException", SearchSite)
            /\ UNCHANGED <<inputs, outside, aiVars, gemini_songs, anyResults, cascadeSaw>>
       ELSE /\ sPc' = IF resp = "results" THEN "songs"
                      ELSE AfterQuery(all_found_songs, Tail(sQueue), sLimit)
            /\ sQueue' = Tail(sQueue)
            /\ sSeen' = 0
            /\ sReqs' = sReqs + 1
            /\ lastSong' = <<>>
            /\ sFailed' = IF resp = "fail" THEN sFailed + 1 ELSE sFailed
            /\ UNCHANGED <<inputs, outside, loopVars, aiVars, gemini_songs, result, outcome,
                           sLimit, all_found_songs, anyResults, stages, cascadeSaw>>

\* the next song of the response: format, detail request if needed, filter
SearchSong ==
  /\ sPc = "songs"
  /\ sSeen < BatchBound
  /\ \E raw \in RawSongs :
       LET song == with_stream_url(format_song(raw), raw.detail)
           found == IF HasStream(song) THEN Append(all_found_songs, song)
                    ELSE all_found_songs
       IN /\ all_found_songs' = found
          /\ sPc' = IF Len(found) >= sLimit THEN AfterQuery(found, sQueue, sLimit)
                    ELSE "songs"
          /\ lastSong' = Append(lastSong, SongStep(raw, FALSE, NeedsDetail(format_song(raw)),
                                                   HasStream(song)))
  /\ sSeen' = sSeen + 1
  /\ anyResults' = TRUE
  /\ UNCHANGED <<inputs, outside, loopVars, aiVars, gemini_songs, result, outcome,
                 sLimit, sQueue, sReqs, sFailed, stages, cascadeSaw>>

\* the response has no further song
SearchEnd ==
  /\ sPc = "songs"
  /\ sPc' = AfterQuery(all_found_songs, sQueue, sLimit)
  /\ lastSong' = <<>>
  /\ UNCHANGED <<inputs, outside, loopVars, aiVars, gemini_songs, result, outcome,
                 sLimit, sQueue, all_found_songs, sSeen, sReqs, sFailed, anyResults,
                 stages, cascadeSaw>>

\* the GET /search/songs for "popular bollywood songs" when still short
GenericRequest ==
  /\ sPc = "generic"
  /\ \E resp \in {"fail", "nosuccess", "results"} :
       IF resp = "fail" /\ ~search_catches("RequestException")
       THEN /\ Throw("RequestException", SearchSite)
            /\ UNCHANGED <<inputs, outside, aiVars, gemini_songs, anyResults, cascadeSaw>>
       ELSE /\ sPc' = IF resp = "results" THEN "gsongs" ELSE "return"
            /\ sSeen' = 0
            /\ sReqs' = sReqs + 1
            /\ lastSong' = <<>>
            /\ sFailed' = IF resp = "fail" THEN sFailed + 1 ELSE sFailed
            /\ UNCHANGED <<inputs, outside, loopVars, aiVars, gemini_songs, result, outcome,
                           sLimit, sQueue, all_found_songs, anyResults, stages, cascadeSaw>>

\* the next song of the generic response: skipped when its key is already
\* collected, else detail request if needed, then the filter
GenericSong ==
  /\ sPc = "gsongs"
  /\ sSeen < BatchBound
  /\ \E raw \in RawSongs :
       LET dup == SongKey(format_song(raw)) \in KeysOf(all_found_songs)
           song == with_stream_url(format_song(raw), raw.detail)
           found == IF ~dup /\ HasStream(song) THEN Append(all_found_songs, song)
                    ELSE all_found_songs
       IN /\ all_found_songs' = found
          /\ sPc' = IF Len(found) >= sLimit THEN "return" ELSE "gsongs"
          /\ lastSong' = Append(lastSong, SongStep(raw, dup, ~dup /\ NeedsDetail(format_song(raw)),
                                                   ~dup /\ HasStream(song)))
  /\ sSeen' = sSeen + 1
  /\ anyResults' = TRUE
  /\ UNCHANGED <<inputs, outside, loopVars, aiVars, gemini_songs, result, outcome,
                 sLimit, sQueue, sReqs, sFailed, stages, cascadeSaw>>

\* the generic response has no further song
GenericEnd ==
  /\ sPc = "gsongs"
  /\ sPc' = "return"
  /\ lastSong' = <<>>
  /\ UNCHANGED <<inputs, outside, loopVars, aiVars, gemini_songs, result, outcome,
                 sLimit, sQueue, all_found_songs, sSeen, sReqs, sFailed, anyResults,
                 stages, cascadeSaw>>


\* ------------------------------------------------- actions: recommend_songs
\* recommend_songs with a client: the AI step calls the oracle and decodes
\* its text
CallOracle ==
  /\ pc = "start"
  /\ hasClient
  /\ \E o \in OracleOutcomes :
       /\ oracle' = o
       /\ IF o = "list"
          THEN /\ pc' = "ai_loop"
               /\ UNCHANGED <<verified_songs, unique_titles, dLimit, dCtx, qIdx,
                              result, outcome, searchVars, stages>>
          ELSE Throw(IF o = "raise" THEN "Exception"
                     ELSE IF o = "notjson" THEN "JSONDecodeError" ELSE "TypeError",
                     IF o = "raise" THEN "call" ELSE "inner")
  /\ UNCHANGED <<inputs, outside, nCands, nVerify, nDropped, cand, gemini_songs, anyResults, cascadeSaw>>

\* recommend_songs without a client goes straight to the direct cascade
NoClient ==
  /\ pc = "start"
  /\ ~hasClient
  /\ DirectStart(limit, "main")
  /\ UNCHANGED <<inputs, outside, aiVars, gemini_songs, anyResults, cascadeSaw>>

\* candidate loop, top: enough verified songs, break; the supplement stage is
\* skipped and verified_songs[:limit] goes back to recommend_songs
CandidatesBreak ==
  /\ pc = "ai_loop"
  /\ Len(verified_songs) >= limit
  /\ nCands' = 0
  /\ nVerify' = 0
  /\ GeminiReturn(Take(verified_songs, limit))
  /\ UNCHANGED <<inputs, outside, oracle, cand, nDropped, anyResults, cascadeSaw>>

\* candidate loop: the array is exhausted while still short; the supplement
\* stage starts with its first phrase
CandidatesEnd ==
  /\ pc = "ai_loop"
  /\ Len(verified_songs) < limit
  /\ nCands' = 0
  /\ nVerify' = 0
  /\ pc' = "supp"
  /\ qIdx' = 1
  /\ StartSearch(SupplementQueries(mood)[1], SupplementLimit, "supp")
  /\ UNCHANGED <<inputs, outside, oracle, cand, nDropped, verified_songs, unique_titles,
                 dLimit, dCtx, gemini_songs, result, outcome, anyResults, cascadeSaw>>

\* candidate loop: the next element has title and artist; skipped when its
\* key is already verified, searched with limit 2 otherwise
NextCandidate ==
  /\ pc = "ai_loop"
  /\ Len(verified_songs) < limit
  /\ nCands < MaxCands
  /\ \E c \in Candidates :
       IF CandKey(c) \in unique_titles
       THEN UNCHANGED <<pc, cand, nVerify, searchVars, stages>>
       ELSE /\ pc' = "verify"
            /\ cand' = <<c>>
            /\ nVerify' = nVerify + 1
            /\ StartSearch(CandQuery(c), VerifyLimit, "verify")
  /\ nCands' = nCands + 1
  /\ UNCHANGED <<inputs, outside, oracle, nDropped, verified_songs, unique_titles,
                 dLimit, dCtx, qIdx, gemini_songs, result, outcome, anyResults, cascadeSaw>>

\* candidate loop: the next element lacks a field, song['title'] raises
MalformedCandidate ==
  /\ pc = "ai_loop"
  /\ Len(verified_songs) < limit
  /\ nCands < MaxCands
  /\ nCands' = 0
  /\ nVerify' = 0
  /\ nDropped' = Len(verified_songs)
  /\ Throw("KeyError", "inner")
  /\ UNCHANGED <<inputs, outside, oracle, cand, gemini_songs, anyResults, cascadeSaw>>

\* the verification search returned: keep its first playable result, with the
\* candidate's mood_match
VerifyReturn ==
  /\ pc = "verify"
  /\ sPc = "return"
  /\ LET hit == FirstPlayable(SearchResult)
         c == cand[1]
     IN IF hit = <<>>
        THEN UNCHANGED <<verified_songs, unique_titles>>
        ELSE /\ verified_songs' = Append(verified_songs,
                   [hit[1] EXCEPT !.mood_match = IF c.mood_match # "" THEN c.mood_match ELSE @,
                                  !.src = "verify"])
             /\ unique_titles' = unique_titles \cup {CandKey(c)}
  /\ pc' = "ai_loop"
  /\ cand' = <<>>
  /\ EndSearch
  /\ UNCHANGED <<inputs, outside, oracle, nCands, nVerify, nDropped, dLimit, dCtx, qIdx,
                 gemini_songs, result, outcome, anyResults, cascadeSaw>>

\* a supplement search returned: add its new playable songs, then the next
\* phrase, or return verified_songs[:limit] to recommend_songs
SupplementReturn ==
  /\ pc = "supp"
  /\ sPc = "return"
  /\ LET r == AddPlayable(SearchResult, verified_songs, unique_titles, limit,
                          "supp")
     IN IF qIdx < Len(SupplementQueries(mood)) /\ Len(r.songs) < limit
        THEN /\ verified_songs' = r.songs
             /\ unique_titles' = r.unique
             /\ qIdx' = qIdx + 1
             /\ StartSearch(SupplementQueries(mood)[qIdx + 1], SupplementLimit, "supp")
             /\ UNCHANGED <<pc, dLimit, dCtx, gemini_songs, result, outcome>>
        ELSE GeminiReturn(Take(r.songs, limit))
  /\ UNCHANGED <<inputs, outside, aiVars, anyResults, cascadeSaw>>

\* a search of the direct cascade returned: add its new playable songs, then
\* the next phrase, or return the list to the caller of the cascade
DirectReturn ==
  /\ pc = "direct"
  /\ sPc = "return"
  /\ LET r == AddPlayable(SearchResult, verified_songs, unique_titles, dLimit,
                          "direct")
     IN IF qIdx < Len(DirectQueries(mood)) /\ Len(r.songs) < dLimit
        THEN /\ verified_songs' = r.songs
             /\ unique_titles' = r.unique
             /\ qIdx' = qIdx + 1
             /\ StartSearch(DirectQueries(mood)[qIdx + 1], DirectLimit, "direct")
             /\ UNCHANGED <<pc, dLimit, dCtx, gemini_songs, result, outcome>>
        ELSE IF dCtx \in {"json", "exc"}
        THEN GeminiReturn(r.songs)
        ELSE IF dCtx = "outer"
        THEN /\ Finish(Combine(gemini_songs, r.songs, limit))
             /\ UNCHANGED gemini_songs
        ELSE IF r.songs # <<>>
        THEN /\ Finish(r.songs)
             /\ UNCHANGED gemini_songs
        ELSE /\ pc' = "last"
             /\ verified_songs' = <<>>
             /\ unique_titles' = {}
             /\ dLimit' = 0
             /\ dCtx' = "none"
             /\ qIdx' = 0
             /\ StartSearch(mood, limit, "last")
             /\ UNCHANGED <<gemini_songs, result, outcome>>
  /\ cascadeSaw' = IF FirstPlayable(SearchResult) # <<>> THEN "titled"
                   ELSE IF SearchResult # <<>> /\ cascadeSaw = "nothing" THEN "untitled"
                   ELSE cascadeSaw
  /\ UNCHANGED <<inputs, outside, aiVars, anyResults>>

\* the last-resort search returned: recommend_songs returns its songs that
\* have a stream url
LastResortReturn ==
  /\ pc = "last"
  /\ sPc = "return"
  /\ Finish(LastResortFilter(SearchResult))
  /\ UNCHANGED <<inputs, outside, aiVars, gemini_songs, anyResults, cascadeSaw>>

Next ==
  \/ CallOracle
  \/ NoClient
  \/ CandidatesBreak
  \/ CandidatesEnd
  \/ NextCandidate
  \/ MalformedCandidate
  \/ SearchRequest
  \/ SearchSong
  \/ SearchEnd
  \/ GenericRequest
  \/ GenericSong
  \/ GenericEnd
  \/ VerifyReturn
  \/ SupplementReturn
  \/ DirectReturn
  \/ LastResortReturn

Spec == Init /\ [][Next]_vars

\* ------------------------------ search_songs_by_mood called on its own
\* the queries the catalog client is called with: a mood label and a
\* "{title} {artist}" query
SearchQueries == {"Happy", "Tum Arijit"}

\* search_songs_by_mood(query, limit) returns to its caller
ClientReturn ==
  /\ pc = "client"
  /\ sPc = "return"
  /\ pc' = "done"
  /\ sPc' = "idle"
  /\ result' = SearchResult
  /\ outcome' = "returned"
  /\ UNCHANGED <<inputs, outside, aiVars, verified_songs, unique_titles,
                 gemini_songs, dLimit, dCtx, qIdx, sLimit, sQueue,
                 all_found_songs, sSeen, sReqs, sFailed, lastSong, anyResults,
                 stages, cascadeSaw>>

\* a caller enters search_songs_by_mood(mood, limit)
SearchInit ==
  /\ mood \in SearchQueries
  /\ limit \in 1..MaxLimit
  /\ hasClient = FALSE
  /\ pc = "client"
  /\ oracle = "none"
  /\ nCands = 0
  /\ nVerify = 0
  /\ nDropped = 0
  /\ cand = <<>>
  /\ verified_songs = <<>>
  /\ unique_titles = {}
  /\ gemini_songs = <<>>
  /\ dLimit = 0
  /\ dCtx = "none"
  /\ qIdx = 0
  /\ result = <<>>
  /\ outcome = "running"
  /\ sPc = "request"
  /\ sLimit = limit
  /\ sQueue = AllQueries(mood)
  /\ all_found_songs = <<>>
  /\ sSeen = 0
  /\ sReqs = 0
  /\ lastSong = <<>>
  /\ sFailed = 0
  /\ anyResults = FALSE
  /\ stages = {"client"}
  /\ cascadeSaw = "nothing"
  /\ StoreInit
  /\ SessionInit

SearchNext ==
  \/ SearchRequest
  \/ SearchSong
  \/ SearchEnd
  \/ GenericRequest
  \/ GenericSong
  \/ GenericEnd
  \/ ClientReturn

SearchSpec == SearchInit /\ [][SearchNext]_vars

\* ------------------------------------------ the phrase lists of the resolver
\* the mood labels the lists are looked up for: the six labels, a text
\* outside them and the empty text
LookupMoods == MoodLabels \cup {"Excited", ""}

\* queries = mood_queries.get(...) of the supplement stage, or
\* mood_specific_queries.get(...) of the direct cascade
LookupQueries ==
  /\ pc = "lookup"
  /\ pc' = "phrases"
  /\ sQueue' = IF dCtx = "supplement" THEN SupplementQueries(mood)
               ELSE DirectQueries(mood)
  /\ qIdx' = 0
  /\ UNCHANGED <<inputs, outside, aiVars, verified_songs, unique_titles,
                 gemini_songs, dLimit, dCtx, result, outcome, sPc, sLimit,
                 all_found_songs, sSeen, sReqs, sFailed, lastSong, anyResults, stages,
                 cascadeSaw>>

\* for query in queries
NextPhrase ==
  /\ pc = "phrases"
  /\ qIdx < Len(sQueue)
  /\ qIdx' = qIdx + 1
  /\ UNCHANGED <<inputs, outside, aiVars, pc, verified_songs, unique_titles,
                 gemini_songs, dLimit, dCtx, result, outcome, searchVars,
                 anyResults, stages, cascadeSaw>>

PhraseInit ==
  /\ mood \in LookupMoods
  /\ limit \in 1..MaxLimit
  /\ hasClient \in BOOLEAN
  /\ pc = "lookup"
  /\ dCtx \in {"supplement", "direct"}
  /\ ResolverRest
  /\ StoreInit
  /\ SessionInit

PhraseNext ==
  \/ LookupQueries
  \/ NextPhrase

PhraseSpec == PhraseInit /\ [][PhraseNext]_vars

\* ------------------------------------------------------ actions: database.py
\* largest limit get_user_history is called with
MaxHistory == 2

\* the arguments the save methods are called with
SavedMessages == << [role |-> "user", content |-> "hi"],
                    [role |-> "assistant", content |-> "reply"] >>
SavedMoods == {"Happy"}

\* history record of one Database call
DbCall(op, user_id, lim, rf, w, returned, history) ==
  << [ op |-> op, user_id |-> user_id, lim |-> lim, read_failed |-> rf,
       write |-> w, returned |-> returned, history |-> history ] >>

\* db.save_conversation(user_id, messages): read, append, write
SaveConversation ==
  /\ pc = "idle"
  /\ \E user_id \in Users, t \in Times, io_fails \in BOOLEAN, w \in WriteOutcomes :
       LET conversations == read_json_file(conversations_file, io_fails)
           appended == Append(conversations,
                              conversation_record(user_id, SavedMessages, t))
       IN /\ Len(appended) + Len(recommendations_file.data) <= MaxRecords
          /\ conversations_file' = write_json_file(conversations_file, appended, w)
          /\ dbCall' = DbCall("save_conversation", user_id, 0,
                              read_failed(conversations_file, io_fails), w,
                              write_returns(w), <<>>)
  /\ UNCHANGED <<resolverVars, appVars, recommendations_file, savers>>

\* db.save_recommendation(user_id, mood, recommendations): read, append, write
SaveRecommendation ==
  /\ pc = "idle"
  /\ \E user_id \in Users, m \in SavedMoods, t \in Times, io_fails \in BOOLEAN,
        w \in WriteOutcomes :
       LET recs == read_json_file(recommendations_file, io_fails)
           appended == Append(recs, recommendation_record(user_id, m, <<>>, t))
       IN /\ Len(appended) + Len(conversations_file.data) <= MaxRecords
          /\ recommendations_file' = write_json_file(recommendations_file, appended, w)
          /\ dbCall' = DbCall("save_recommendation", user_id, 0,
                              read_failed(recommendations_file, io_fails), w,
                              write_returns(w), <<>>)
  /\ UNCHANGED <<resolverVars, appVars, conversations_file, savers>>

\* db.get_user_history(user_id, limit)
GetUserHistory ==
  /\ pc = "idle"
  /\ \E user_id \in Users, lim \in 1..MaxHistory, io_fails \in BOOLEAN :
       dbCall' = DbCall("get_user_history", user_id, lim,
                        read_failed(recommendations_file, io_fails), "none", TRUE,
                        get_user_history(recommendations_file, user_id, lim, io_fails))
  /\ UNCHANGED <<resolverVars, appVars, conversations_file, recommendations_file, savers>>

DbInit ==
  /\ ResolverIdle
  /\ hasClient = FALSE
  /\ StoreInit
  /\ SessionInit

DbNext ==
  \/ SaveConversation
  \/ SaveRecommendation
  \/ GetUserHistory

DbSpec == DbInit /\ [][DbNext]_vars

\* data/recommendations.json when the app starts: empty, or holding a record
\* an earlier save_recommendation call left there
StoredBefore ==
  { <<>>,
    << recommendation_record("default_user", "Happy", <<>>, [s |-> 9, us |-> 0]) >> }

\* ------------------------------------- database.py, two sessions at a time
\* Each session runs one save call of the same method; _read_json_file and
\* _write_json_file are one step each, and the steps of the two calls
\* interleave freely: the module takes no lock.
SaveOps == {"save_conversation", "save_recommendation"}

\* the file a save method works on
FileOf(op) ==
  IF op = "save_conversation" THEN conversations_file ELSE recommendations_file

\* lines 52-57 and 66-72: the list is read and the session's record appended
\* to it, in memory
SaverRead(p) ==
  /\ savers[p].pc = "called"
  /\ \E t \in Times, io_fails \in BOOLEAN :
       LET op == savers[p].op
           record == IF op = "save_conversation"
                     THEN conversation_record(SessionUser[p], SavedMessages, t)
                     ELSE recommendation_record(SessionUser[p], "Happy", <<>>, t)
       IN savers' = [savers EXCEPT ![p] =
                       [@ EXCEPT !.pc = "read",
                                 !.record = <<record>>,
                                 !.read_failed = read_failed(FileOf(op), io_fails),
                                 !.data = Append(read_json_file(FileOf(op), io_fails), record)]]
  /\ UNCHANGED <<resolverVars, appVars, conversations_file, recommendations_file, dbCall>>

\* lines 58 and 73: the list held in memory is written over the file
SaverWrite(p) ==
  /\ savers[p].pc = "read"
  /\ \E w \in WriteOutcomes :
       /\ IF savers[p].op = "save_conversation"
          THEN /\ conversations_file' = write_json_file(conversations_file, savers[p].data, w)
               /\ UNCHANGED recommendations_file
          ELSE /\ recommendations_file' = write_json_file(recommendations_file, savers[p].data, w)
               /\ UNCHANGED conversations_file
       /\ savers' = [savers EXCEPT ![p] =
                       [@ EXCEPT !.pc = "done", !.returned = write_returns(w)]]
  /\ UNCHANGED <<resolverVars, appVars, dbCall>>

ConcInit ==
  /\ ResolverIdle
  /\ hasClient = FALSE
  /\ SessionInit
  /\ conversations_file = ValidFile(<<>>)
  /\ \E data \in StoredBefore : recommendations_file = ValidFile(data)
  /\ dbCall = <<>>
  /\ \E op \in SaveOps :
       savers = [p \in Sessions |-> [NoSaver EXCEPT !.pc = "called", !.op = op]]

ConcNext ==
  \E p \in Sessions :
    \/ SaverRead(p)
    \/ SaverWrite(p)

ConcSpec == ConcInit /\ [][ConcNext]_vars

\* ----------------------------------------------------------- actions: app.py
\* Each action is one block of the script.  The sidebar block comes before
\* the page block in every script run and ends in the NameError of line 354,
\* so as written no script run gets to its page block; the page blocks are
\* modelled all the same, from every session state their guards admit.

\* except Exception of analyze_mood (lines 81 and 84)
analyze_catches(e) == TRUE

\* whether analyze_mood lets an exception out
analyze_raises(client, reply) ==
  /\ client
  /\ reply.kind # "text"
  /\ ~analyze_catches(IF reply.kind = "raise" THEN "Exception" ELSE "AttributeError")

\* history record of one block: the clock when the block began, whether it ran the analysis, with which
\* client and oracle answer, the mood analyze_mood returned, the Database
\* methods it called, and the exception that ended it
AppCall(block, at, analysed, reply, m, saves, raised) ==
  << [ block |-> block, at |-> at, analysed |-> analysed, client |-> hasClient,
       reply |-> reply, mood |-> m, analyze_raised |-> analysed /\ analyze_raises(hasClient, reply),
       saves |-> saves, raised |-> raised ] >>

NoReply == [kind |-> "none", text |-> ""]

\* the Database methods lines 503-504 get to call
SaveCalls ==
  IF db_lookup = "NameError" THEN <<>>
  ELSE <<"save_conversation", "save_recommendation">>

\* mutant of chat_catches: the chat reply is generated outside a try
chat_catches_none(e) == FALSE

\* except Exception around the chat reply (line 469)
chat_catches(e) == TRUE

\* mutant of analysis_due: the elapsed time is not looked at
analysis_due_always(elapsed, done) == ~done

\* datetime.now() - start_time >= timedelta(minutes=1) and not analysis_done
analysis_due(elapsed, done) == elapsed >= OneMinute /\ ~done

\* mutant of chat_input_shown: the chat input is always shown
chat_input_shown_always(done) == TRUE

\* if not st.session_state.analysis_done: the chat input is shown
chat_input_shown(done) == ~done

\* with st.sidebar: the Return to Home button, the recommendations of a
\* finished analysis, then db.get_user_history
Sidebar ==
  /\ pc = "idle"
  /\ \E clicked \in BOOLEAN :
       page' = IF clicked /\ page = "chat" THEN "home" ELSE page
  /\ appCall' = AppCall("sidebar", now, FALSE, NoReply, "", <<>>, db_lookup)
  /\ UNCHANGED <<resolverVars, dbVars, now, messages, start_time, analysis_done,
                 session_mood, recommendations>>

\* the home page: Start Chatting
HomePage ==
  /\ pc = "idle"
  /\ page = "home"
  /\ \E clicked \in BOOLEAN :
       page' = IF clicked THEN "chat" ELSE page
  /\ appCall' = AppCall("home", now, FALSE, NoReply, "", <<>>, "none")
  /\ UNCHANGED <<resolverVars, dbVars, now, messages, start_time, analysis_done,
                 session_mood, recommendations>>

\* the chat page with a message submitted: timer, user turn, reply, and after
\* one minute the analysis, the recommendation and the two saves
ChatTurn ==
  /\ pc = "idle"
  /\ page = "chat"
  /\ chat_input_shown(analysis_done)
  /\ Len(messages) + 2 <= MaxMessages
  /\ \E t1 \in now..MaxClock, chat \in ChatReplies :
     \E t2 \in t1..MaxClock :
       LET start == IF start_time = <<>> THEN t1 ELSE start_time[1]
           response == IF hasClient /\ chat = "reply" THEN "reply" ELSE "canned"
           e == IF hasClient /\ chat = "reply" THEN "none"
                ELSE IF hasClient THEN "Exception" ELSE "AttributeError"
           due == analysis_due(t2 - start, analysis_done)
       IN /\ start_time' = <<start>>
          /\ now' = t2
          /\ IF e # "none" /\ ~chat_catches(e)
             THEN /\ messages' = Append(messages, [role |-> "user", content |-> "hi"])
                  /\ appCall' = AppCall("chat", t1, FALSE, NoReply, "", <<>>, e)
                  /\ UNCHANGED <<analysis_done, session_mood, recommendations>>
             ELSE /\ messages' = messages \o << [role |-> "user", content |-> "hi"],
                                                  [role |-> "assistant", content |-> response] >>
                  /\ IF due
                     THEN \E reply \in MoodReplies, recs \in RecommendOutcomes :
                            /\ analysis_done' = TRUE
                            /\ session_mood' = <<analyze_mood(hasClient, reply)>>
                            /\ recommendations' = <<recs>>
                            /\ appCall' = AppCall("chat", t1, TRUE, reply,
                                                  analyze_mood(hasClient, reply),
                                                  SaveCalls, db_lookup)
                     ELSE /\ appCall' = AppCall("chat", t1, FALSE, NoReply, "", <<>>, "none")
                          /\ UNCHANGED <<analysis_done, session_mood, recommendations>>
  /\ UNCHANGED <<resolverVars, dbVars, page>>

\* mutant of StartNewChat: the message list is left as it is
StartNewChat_keep ==
  /\ pc = "idle"
  /\ page = "chat"
  /\ analysis_done
  /\ start_time' = <<>>
  /\ analysis_done' = FALSE
  /\ appCall' = AppCall("reset", now, FALSE, NoReply, "", <<>>, "none")
  /\ UNCHANGED <<resolverVars, dbVars, now, page, messages, session_mood, recommendations>>

\* the chat page after the analysis: Start New Chat
StartNewChat ==
  /\ pc = "idle"
  /\ page = "chat"
  /\ analysis_done
  /\ messages' = <<>>
  /\ start_time' = <<>>
  /\ analysis_done' = FALSE
  /\ appCall' = AppCall("reset", now, FALSE, NoReply, "", <<>>, "none")
  /\ UNCHANGED <<resolverVars, dbVars, now, page, session_mood, recommendations>>

\* test_mood.py: analyze_mood called on a text, the mood printed
TestMoodAnalysis ==
  /\ pc = "idle"
  /\ \E reply \in MoodReplies :
       appCall' = AppCall("test", now, TRUE, reply, analyze_mood(hasClient, reply),
                          <<>>, "none")
  /\ UNCHANGED <<resolverVars, dbVars, now, page, messages, start_time,
                 analysis_done, session_mood, recommendations>>

AppInit ==
  /\ ResolverIdle
  /\ hasClient \in BOOLEAN
  /\ conversations_file = ValidFile(<<>>)
  /\ \E data \in StoredBefore : recommendations_file = ValidFile(data)
  /\ dbCall = <<>>
  /\ savers = [p \in Sessions |-> NoSaver]
  /\ SessionInit

AppNext ==
  \/ Sidebar
  \/ HomePage
  \/ ChatTurn
  \/ StartNewChat
  \/ TestMoodAnalysis

AppSpec == AppInit /\ [][AppNext]_vars




\* ================================================================ properties
\* the last song step of the current response
LastStep == lastSong[Len(lastSong)]

Done == pc = "done"

\* no two songs of the list share f"{title} {artist}".lower()
Distinct(songs) ==
  \A i, j \in 1..Len(songs) : i < j => SongKey(songs[i]) # SongKey(songs[j])

AllFrom(songs, srcs) == \A i \in 1..Len(songs) : songs[i].src \in srcs

AllStreamable(songs) == \A i \in 1..Len(songs) : songs[i].stream_url # ""

\* the number of songs of the list that were verified from AI candidates
RECURSIVE CountVerified(_)
CountVerified(songs) ==
  IF songs = <<>> THEN 0
  ELSE (IF Head(songs).src = "verify" THEN 1 ELSE 0) + CountVerified(Tail(songs))

\* the AI source is unavailable: no client, or the oracle call raised
Unavailable == ~hasClient \/ oracle = "raise"

\* C1: every track of the list recommend_songs returns has a non-empty
\* stream_url, whichever stage produced it.
C1_StreamUrlNonEmpty == Done => AllStreamable(result)

\* a returned list with a track verified from an AI candidate and a track of
\* the supplement stage
C1_Witness ==
  /\ Done
  /\ Len(result) = 2
  /\ result[1].src = "verify"
  /\ result[2].src = "supp"

\* C2: no two tracks of the list recommend_songs returns share the same
\* case-insensitive title+artist key, on every return path.
C2_DistinctKeys == Done => Distinct(result)

\* C3: the list recommend_songs returns has at most limit (count) elements.
C3_AtMostCount == Done => Len(result) <= limit

\* the direct cascade filled the list up to the limit
C3_Witness ==
  /\ Done
  /\ Len(result) = limit
  /\ result[limit].src = "direct"

C5_EmptyCatalogEmptyList ==
  (Done /\ ~anyResults) => (result = <<>> /\ outcome = "returned")

\* with a client and a decoded candidate array, all four stages searched and
\* the catalog never had a result
C5_Witness ==
  /\ Done
  /\ ~anyResults
  /\ oracle = "list"
  /\ stages = {"verify", "supp", "direct", "last"}

C7_FullAiStageShortCircuits ==
  [][ /\ (pc = "ai_loop" /\ Len(verified_songs) >= limit) =>
           /\ pc' = "done"
           /\ outcome' = "returned"
           /\ result' = verified_songs
           /\ stages' = {"verify"}
      /\ (pc = "verify" /\ pc' = "ai_loop") =>
           \/ verified_songs' = verified_songs
           \/ /\ Len(verified_songs') = Len(verified_songs) + 1
              /\ SubSeq(verified_songs', 1, Len(verified_songs)) = verified_songs
              /\ verified_songs'[Len(verified_songs')].src = "verify"
    ]_vars

\* two tracks verified from candidates were returned for limit 2
C7_Witness ==
  /\ Done
  /\ limit = 2
  /\ Len(result) = 2
  /\ AllFrom(result, {"verify"})

\* C8: when the AI stage verifies k tracks with 0 < k < limit, the output
\* starts with these k tracks, followed by at most limit-k tracks of the
\* mood's fallback phrases, each playable and sharing its key with no other
\* track of the output.
C8_SupplementDeduplicated ==
  (Done /\ oracle = "list" /\ 0 < CountVerified(result) /\ CountVerified(result) < limit) =>
    /\ Len(result) <= limit
    /\ AllFrom(SubSeq(result, 1, CountVerified(result)), {"verify"})
    /\ AllFrom(SubSeq(result, CountVerified(result) + 1, Len(result)), {"supp", "direct"})
    /\ \A i \in 1..Len(result) : Playable(result[i])
    /\ Distinct(result)

\* C9 as stated: with the AI source unavailable, no verification search is
\* made and the result is that of the mood-phrase cascade alone,
\* deduplicated and capped at limit.
C9_Original ==
  (Done /\ Unavailable) =>
    /\ "verify" \notin stages
    /\ AllFrom(result, {"direct"})
    /\ Distinct(result)
    /\ Len(result) <= limit

\* C9 amended: with the AI source unavailable, no verification or supplement
\* search is made; every search of the cascade is for the next of the mood's
\* direct phrases with limit 5; the result is capped at limit and is either
\* made of cascade tracks with pairwise distinct keys or, when the cascade
\* found nothing, the output of the last-resort search.
C9_UnavailableUsesCascade ==
  /\ Unavailable => stages \cap {"verify", "supp"} = {}
  /\ (pc = "direct" /\ sPc = "request") =>
       /\ sLimit = DirectLimit
       /\ qIdx \in 1..Len(DirectQueries(mood))
       /\ sQueue = <<DirectQueries(mood)[qIdx]>>
  /\ (Done /\ Unavailable) =>
       /\ Len(result) <= limit
       /\ \/ AllFrom(result, {"direct"}) /\ Distinct(result)
          \/ AllFrom(result, {"last"}) /\ "last" \in stages

\* the oracle call raised and two cascade tracks were returned
C9_Witness ==
  /\ Done
  /\ oracle = "raise"
  /\ Len(result) = 2
  /\ AllFrom(result, {"direct"})

\* C10 as stated: for a result without downloadUrl a detail request is made,
\* and when it yields no usable url the track is not added.
C10_Original ==
  (lastSong # <<>> /\ ~LastStep.rawUrl) =>
    /\ LastStep.fetched
    /\ ~LastStep.usable => ~LastStep.added

\* C10 amended: for a result without downloadUrl that the scan processes, a
\* detail request is made exactly when the result has an id and is not
\* skipped as a duplicate of the generic pass; without a request, or when
\* the request yields no usable url, the track is not added, and no track
\* without stream_url is in the output of the search or of recommend_songs.
C10_NoUrlExcluded ==
  /\ (lastSong # <<>> /\ ~LastStep.rawUrl) =>
       /\ LastStep.fetched <=> (LastStep.hasId /\ ~LastStep.skipped)
       /\ (~LastStep.fetched \/ ~LastStep.usable) => ~LastStep.added
  /\ AllStreamable(all_found_songs)
  /\ Done => AllStreamable(result)

\* a result without downloadUrl whose detail request gave no usable url was
\* left out
C10_Witness ==
  /\ lastSong # <<>>
  /\ ~LastStep.rawUrl
  /\ LastStep.fetched
  /\ ~LastStep.usable
  /\ ~LastStep.added


\* ------------------------------------------------------ database properties
\* the records a file holds: none when its text is not valid JSON
Stored(file) == IF file.valid THEN file.data ELSE <<>>

IsPrefix(a, b) == Len(a) <= Len(b) /\ SubSeq(b, 1, Len(a)) = a

\* the instant a stored timestamp stands for
TimeOf(str) == CHOOSE t \in Times : isoformat(t) = str

TimeBefore(a, b) == a.s < b.s \/ (a.s = b.s /\ a.us < b.us)

Count(seq, r) == Cardinality({i \in 1..Len(seq) : seq[i] = r})

\* the recommendation records of a user in the store, timestamps as instants
RecordsOf(user_id) ==
  LET mine == SelectSeq(Stored(recommendations_file), LAMBDA r : r.user_id = user_id)
  IN [i \in 1..Len(mine) |-> [mine[i] EXCEPT !.timestamp = TimeOf(mine[i].timestamp)]]

\* the last Database call was the given method
LastCall(op) == dbCall # <<>> /\ dbCall[1].op = op

\* C12: the stored records are append-only: over every step, also one in
\* which reading or writing a file fails, each record a file held is still
\* there, unmodified and at the same position.
C12_AppendOnly ==
  [][ /\ IsPrefix(Stored(conversations_file), Stored(conversations_file'))
      /\ IsPrefix(Stored(recommendations_file), Stored(recommendations_file')) ]_vars

\* C13: get_user_history(user_id, limit), when it can read the store, returns
\* only records of user_id, at most limit of them, newest first by timestamp,
\* and they are the limit most recent records of that user.
C13_HistoryNewestFirst ==
  (LastCall("get_user_history") /\ ~dbCall[1].read_failed) =>
    LET c == dbCall[1]
        h == c.history
        mine == RecordsOf(c.user_id)
        all == {mine[i] : i \in 1..Len(mine)}
    IN /\ \A i \in 1..Len(h) : h[i].user_id = c.user_id
       /\ Len(h) <= c.lim
       /\ Len(h) = IF Len(mine) < c.lim THEN Len(mine) ELSE c.lim
       /\ \A i, j \in 1..Len(h) :
            i < j => ~TimeBefore(h[i].timestamp, h[j].timestamp)
       /\ \A i \in 1..Len(h) : Count(h, h[i]) <= Count(mine, h[i])
       /\ \A r \in all :
            (h # <<>> /\ TimeBefore(h[Len(h)].timestamp, r.timestamp))
              => Count(h, r) = Count(mine, r)

\* a history of two records was cut from three records of the user that were
\* stored oldest last
C13_Witness ==
  /\ LastCall("get_user_history")
  /\ ~dbCall[1].read_failed
  /\ Len(dbCall[1].history) = 2
  /\ Len(RecordsOf(dbCall[1].user_id)) = 3
  /\ TimeBefore(RecordsOf(dbCall[1].user_id)[3].timestamp,
                RecordsOf(dbCall[1].user_id)[1].timestamp)
  /\ TimeBefore(RecordsOf(dbCall[1].user_id)[1].timestamp,
                RecordsOf(dbCall[1].user_id)[2].timestamp)

\* C14: a persistence failure never propagates: a save during which reading
\* or writing the store fails reports False, a history call during which
\* reading fails reports an empty list, and the mood and the recommendation
\* list of the session are as before the call.
C14_FailureSwallowed ==
  [][ dbCall' # dbCall =>
        LET c == dbCall'[1]
        IN /\ (c.op # "get_user_history" /\ (c.read_failed \/ c.write # "ok"))
                => c.returned = FALSE
           /\ (c.op = "get_user_history" /\ c.read_failed) => c.history = <<>>
           /\ session_mood' = session_mood
           /\ recommendations' = recommendations ]_vars


\* ------------------------------------------------------- session properties
\* C15: one conversation record and one recommendation record are saved per
\* completed chat session: the two save calls are made at the step on which
\* analysis_done switches to true, and no save call is made while
\* analysis_done is true.
C15_SavedOncePerSession ==
  [][ /\ (~analysis_done /\ analysis_done')
           => appCall'[1].saves = <<"save_conversation", "save_recommendation">>
      /\ (analysis_done /\ appCall' # <<>>) => appCall'[1].saves = <<>> ]_vars

Pads == {"", " ", "\n", "\t"}

\* C16: analyze_mood never raises; without a client, or when the oracle call
\* fails, it returns "Neutral"; otherwise it returns the oracle's text with
\* the surrounding whitespace removed and nothing else changed, whether or
\* not that is one of the six labels.
C16_AnalyzeMoodTotal ==
  (appCall # <<>> /\ appCall[1].analysed) =>
    LET c == appCall[1]
        m == c.mood
    IN /\ ~c.analyze_raised
       /\ c.block = "chat" => session_mood = <<m>>
       /\ (~c.client \/ c.reply.kind # "text") => m = "Neutral"
       /\ (c.client /\ c.reply.kind = "text") =>
            /\ \E a, b \in Pads : a \o m \o b = c.reply.text
            /\ m # "" => /\ SubSeq(m, 1, 1) \notin Whitespace
                         /\ SubSeq(m, Len(m), Len(m)) \notin Whitespace

\* the oracle answered with a padded label, and with a text outside the six
\* labels that was returned as the mood
C16_Witness ==
  /\ appCall # <<>>
  /\ appCall[1].block = "test"
  /\ appCall[1].client
  /\ \/ appCall[1].reply.text = " Happy\n" /\ appCall[1].mood = "Happy"
     \/ appCall[1].reply.text = "Excited" /\ appCall[1].mood \notin MoodLabels


\* ---------------------------------------------------- phrase list properties
NoRepeats(seq) == \A i, j \in 1..Len(seq) : i < j => seq[i] # seq[j]

\* C17: for each of the six mood labels the resolver's mood-to-query mapping
\* gives a non-empty list of pairwise distinct phrases, three or four of
\* them; for any other label it gives a generic default list; the lookup has
\* no error outcome.
C17_PhraseListsWellFormed ==
  (pc = "phrases") =>
    /\ sQueue # <<>>
    /\ NoRepeats(sQueue)
    /\ \A i \in 1..Len(sQueue) : sQueue[i] # ""
    /\ mood \in MoodLabels => Len(sQueue) \in 3..4
    /\ mood \notin MoodLabels =>
         sQueue \in {<<"popular indian songs">>, <<"popular bollywood songs">>}

\* the four phrases of the direct cascade for Sad were gone through
C17_Witness ==
  /\ pc = "phrases"
  /\ mood = "Sad"
  /\ dCtx = "direct"
  /\ Len(sQueue) = 4
  /\ qIdx = 4


\* ------------------------------------------------ catalog client properties
\* C18: a search request that fails (transport failure or non-2xx answer)
\* yields no song for its query and raises nothing; a failed detail request
\* keeps only its own track out of the result, the tracks after it in the
\* same response are processed as usual.
C18_SearchFailuresContained ==
  [][ /\ outcome' # "raised"
      /\ sFailed' = sFailed + 1 =>
           /\ all_found_songs' = all_found_songs
           /\ sPc' \in {"request", "generic", "return"}
      /\ \A i \in 1..Len(lastSong') :
           LET st == lastSong'[i]
           IN /\ st.failed => ~st.added
              /\ st.added <=> (~st.skipped /\ (st.rawUrl \/ (st.fetched /\ st.usable)))
      /\ (Len(lastSong') = Len(lastSong) + 1 /\ lastSong'[Len(lastSong')].failed) =>
           /\ all_found_songs' = all_found_songs
           /\ sPc' = sPc ]_vars

\* after a failed search request, a response of two tracks: the detail
\* request of the first failed, the second was added
C18_Witness ==
  /\ pc = "client"
  /\ sFailed >= 1
  /\ Len(lastSong) = 2
  /\ lastSong[1].failed
  /\ ~lastSong[1].added
  /\ lastSong[2].added
  /\ Len(all_found_songs) = 1

\* C19 as stated: one call of search_songs_by_mood issues exactly one search
\* request.
C19_Original ==
  (pc = "client" /\ sPc = "return") => sReqs = 1

\* the requests of the current call made for the queries of all_queries
ListRequests == Len(AllQueries(mood)) - Len(sQueue)

\* C19 amended: a call issues one request per query of its list (the query,
\* or the three phrases of a mood label), in order, while fewer than limit
\* songs are collected, then one request for the generic query if still
\* fewer than limit are collected: between one and four requests, and none
\* is repeated after a failure.
C19_RequestsPerCall ==
  (pc = "client") =>
    /\ sFailed <= sReqs
    /\ sReqs <= 4
    /\ sPc \in {"request", "songs", "generic"} => sReqs = ListRequests
    /\ sPc = "request" => (sQueue # <<>> /\ Len(all_found_songs) < sLimit)
    /\ sPc = "generic" => (sQueue = <<>> /\ Len(all_found_songs) < sLimit)
    /\ sPc = "gsongs" => (sQueue = <<>> /\ sReqs = ListRequests + 1)
    /\ sPc = "return" =>
         /\ sReqs >= 1
         /\ sReqs \in {ListRequests, ListRequests + 1}
         /\ sReqs = ListRequests => Len(all_found_songs) >= sLimit
         /\ sQueue # <<>> => Len(all_found_songs) >= sLimit

\* a call for a mood label that issued its three requests and the generic one
C19_Witness ==
  /\ pc = "client"
  /\ sPc = "return"
  /\ mood = "Happy"
  /\ sReqs = 4


\* ------------------------------------------------------ last-resort stage
\* C20 as stated: whenever the earlier stages leave recommend_songs with
\* fewer than limit tracks, the last-resort search is run.
C20_Original ==
  (Done /\ Len(result) < limit) => "last" \in stages

\* C20 amended: the last-resort search is run exactly when the earlier stages
\* yield no track at all, it is run once, and its songs that have a stream
\* url are what recommend_songs returns; when the earlier stages yield at
\* least one track, those are returned without a last-resort search.
C20_LastResortOnlyWhenEmpty ==
  [][ /\ (pc # "last" /\ pc' = "last") =>
           /\ "last" \notin stages
           /\ gemini_songs = <<>>
           /\ verified_songs = <<>>
           /\ FirstPlayable(SearchResult) = <<>>
      /\ (pc # "done" /\ pc' = "done") =>
           IF pc = "last"
           THEN /\ AllFrom(result', {"last"})
                /\ AllStreamable(result')
                /\ Len(result') <= limit
           ELSE /\ "last" \notin stages'
                /\ result' # <<>>
                /\ AllFrom(result', {"verify", "supp", "direct"}) ]_vars

\* fewer than limit tracks were returned and no last-resort search was made
C20_Witness ==
  /\ Done
  /\ "last" \notin stages
  /\ result # <<>>
  /\ Len(result) < limit

\* ------------------------------------------------------- the AI step's handlers
\* the direct cascade runs inside one of the two except clauses of the AI step
InHandler == dCtx \in {"json", "exc"}

\* the step in which the AI step returns from one of its except clauses
HandlerReturns == InHandler /\ dCtx' \notin {"json", "exc"}

\* C21 as stated: when the oracle call fails or its payload cannot be decoded,
\* the AI step returns the empty list to recommend_songs and does not raise.
C21_Original ==
  [][ HandlerReturns => (gemini_songs' = <<>> /\ outcome' # "raised") ]_vars

\* C21 amended: a failure of the oracle call, of the decoding or of the
\* candidate loop is caught inside the AI step, which then returns the list
\* of the direct cascade for (mood, limit): cascade tracks only, each playable,
\* at most limit, empty exactly when no phrase search of the cascade returned
\* a playable titled track; nothing is raised to recommend_songs.
C21_HandlerReturnsCascade ==
  [][ /\ (hasClient /\ pc \in {"start", "ai_loop"} /\ pc' = "direct") =>
           /\ dCtx' \in {"json", "exc"}
           /\ dLimit' = limit
      /\ HandlerReturns =>
           /\ pc = "direct"
           /\ outcome' # "raised"
           /\ AllFrom(gemini_songs', {"direct"})
           /\ \A i \in 1..Len(gemini_songs') : Playable(gemini_songs'[i])
           /\ Len(gemini_songs') <= limit
           /\ (gemini_songs' = <<>>) <=> (cascadeSaw' # "titled")
    ]_vars

\* the oracle call raised, the AI step returned one cascade track for limit 2
\* and recommend_songs went on to supplement it
C21_Witness ==
  /\ oracle = "raise"
  /\ limit = 2
  /\ Len(gemini_songs) = 1
  /\ gemini_songs[1].src = "direct"
  /\ pc = "direct"
  /\ dCtx = "outer"

\* ------------------------------------------------------------ discovery order
\* what identifies a catalog track whatever stage tagged it
Ident(song) == <<song.id, song.title, song.artist, song.stream_url>>
Idents(songs) == [i \in 1..Len(songs) |-> Ident(songs[i])]

\* songs[n:]
Drop(songs, n) == SubSeq(songs, n + 1, Len(songs))

RECURSIVE IsSubseq(_, _)
\* a is b with some elements left out, the others in the order of b
IsSubseq(a, b) ==
  IF a = <<>> THEN TRUE
  ELSE IF b = <<>> THEN FALSE
  ELSE IF Head(a) = Head(b) THEN IsSubseq(Tail(a), Tail(b))
  ELSE IsSubseq(a, Tail(b))

\* new is old followed by tracks of found, in the order of found
ExtendsInOrder(old, new, found) ==
  /\ IsPrefix(old, new)
  /\ IsSubseq(Idents(Drop(new, Len(old))), Idents(found))

StageRank(src) ==
  CASE src = "verify" -> 1
    [] src = "supp" -> 2
    [] src = "direct" -> 3
    [] OTHER -> 4

\* C22: the list recommend_songs returns is in discovery order: tracks
\* verified from AI candidates first, then supplement-phrase tracks, then
\* direct-phrase tracks, or last-resort tracks alone; every list the stages
\* build only grows at its end, by tracks of the search that just returned in
\* the order the search returned them, phrase after phrase; the search itself
\* collects its tracks in provider order, the generic query's after the
\* phrase's.
C22_DiscoveryOrder ==
  [][ \* search_songs_by_mood appends
      /\ all_found_songs' = <<>> \/ IsPrefix(all_found_songs, all_found_songs')
      \* candidate loop: one track at most, at the end
      /\ (pc = "verify" /\ sPc = "return") =>
           /\ IsPrefix(verified_songs, verified_songs')
           /\ Len(verified_songs') <= Len(verified_songs) + 1
      \* a phrase search of the supplement stage or of the cascade returned
      /\ (pc \in {"supp", "direct"} /\ sPc = "return") =>
           IF pc' = pc /\ qIdx' = qIdx + 1
           THEN ExtendsInOrder(verified_songs, verified_songs', SearchResult)
           ELSE IF pc = "supp" \/ InHandler
           THEN ExtendsInOrder(verified_songs, gemini_songs', SearchResult)
           ELSE IF dCtx = "outer"
           THEN /\ pc' = "done"
                /\ ExtendsInOrder(gemini_songs, result', verified_songs \o SearchResult)
           ELSE pc' = "done" => ExtendsInOrder(verified_songs, result', SearchResult)
      \* the last-resort search returned
      /\ (pc = "last" /\ pc' = "done") =>
           ExtendsInOrder(<<>>, result', SearchResult)
      \* the returned list, by stage
      /\ pc' = "done" =>
           \A i, j \in 1..Len(result') :
             i < j => StageRank(result'[i].src) <= StageRank(result'[j].src)
    ]_vars

\* a track verified from a candidate was returned ahead of a track the direct
\* cascade added, the supplement stage having found nothing
C22_Witness ==
  /\ Done
  /\ Len(result) = 2
  /\ result[1].src = "verify"
  /\ result[2].src = "direct"
  /\ "supp" \in stages

\* ------------------------------------------------------------ resource bounds
\* C23: one call of recommend_songs makes at most limit*3 verification
\* searches, whatever number of candidates the oracle's array holds.
C23_VerificationSearchesBounded == nVerify <= request_limit(limit)

\* ------------------------------------------------------------ the AI stage
\* C24: the candidate loop takes the candidates one after the other while
\* fewer than limit tracks are verified; a candidate is searched, for
\* "{title} {artist}" with limit 2, exactly when its key is not yet kept, and
\* skipped without a search otherwise; of the search's results the first with
\* a title and a stream_url, and no other, is appended, with the candidate's
\* mood_match, and the candidate's key is then kept.
C24_CandidateLoop ==
  [][ /\ (pc = "ai_loop" /\ nCands' = nCands + 1) =>
           /\ Len(verified_songs) < limit
           /\ UNCHANGED <<verified_songs, unique_titles>>
           /\ IF pc' = "verify"
              THEN /\ CandKey(cand'[1]) \notin unique_titles
                   /\ sQueue' = <<CandQuery(cand'[1])>>
                   /\ sLimit' = VerifyLimit
                   /\ nVerify' = nVerify + 1
              ELSE /\ pc' = "ai_loop"
                   /\ unique_titles # {}
                   /\ UNCHANGED <<searchVars, stages, nVerify>>
      /\ (pc = "verify" /\ pc' # "verify") =>
           /\ pc' = "ai_loop"
           /\ Len(SearchResult) <= VerifyLimit
           /\ IF \A i \in 1..Len(SearchResult) : ~Playable(SearchResult[i])
              THEN UNCHANGED <<verified_songs, unique_titles>>
              ELSE \E i \in 1..Len(SearchResult) :
                     /\ Playable(SearchResult[i])
                     /\ \A j \in 1..(i - 1) : ~Playable(SearchResult[j])
                     /\ Len(verified_songs') = Len(verified_songs) + 1
                     /\ IsPrefix(verified_songs, verified_songs')
                     /\ Ident(verified_songs'[Len(verified_songs')]) = Ident(SearchResult[i])
                     /\ verified_songs'[Len(verified_songs')].mood_match = cand[1].mood_match
                     /\ unique_titles' = unique_titles \cup {CandKey(cand[1])}
    ]_vars

\* one candidate was verified and its mood_match carried over, and a later
\* candidate with the same key was skipped without a search
C24_Witness ==
  /\ pc = "ai_loop"
  /\ limit = 2
  /\ Len(verified_songs) = 1
  /\ verified_songs[1].mood_match = "fits"
  /\ nCands >= 2
  /\ nVerify < nCands

\* the candidate loop raised: with a decoded array, the cascade runs although
\* the supplement stage never did
LoopRaised == oracle = "list" /\ "direct" \in stages /\ "supp" \notin stages

\* C25: when the candidate loop raises partway through the array, the tracks
\* verified so far are dropped, the AI step runs the direct cascade for
\* (mood, limit) from its first phrase with empty lists and returns the
\* cascade's list; neither that list nor the list recommend_songs returns
\* holds a track verified from a candidate or a mood_match.
C25_LoopFailureDiscards ==
  [][ /\ (pc = "ai_loop" /\ pc' = "direct") =>
           /\ dCtx' = "exc"
           /\ nDropped' = Len(verified_songs)
           /\ verified_songs' = <<>>
           /\ unique_titles' = {}
           /\ dLimit' = limit
           /\ qIdx' = 1
           /\ sQueue' = <<DirectQueries(mood)[1]>>
           /\ sLimit' = DirectLimit
      /\ (HandlerReturns /\ oracle = "list") =>
           /\ dLimit = limit
           /\ ExtendsInOrder(verified_songs, gemini_songs', SearchResult)
           /\ AllFrom(gemini_songs', {"direct"})
           /\ \A i \in 1..Len(gemini_songs') : gemini_songs'[i].mood_match = ""
      /\ (LoopRaised /\ pc' = "done") =>
           /\ AllFrom(result', {"direct", "last"})
           /\ \A i \in 1..Len(result') : result'[i].mood_match = ""
    ]_vars

\* the loop raised after it had verified a track, and recommend_songs
\* returned cascade tracks only
C25_Witness ==
  /\ Done
  /\ LoopRaised
  /\ nDropped = 1
  /\ result # <<>>
  /\ AllFrom(result, {"direct"})

\* ------------------------------------------------------------ the chat session
\* the step in which the chat turn runs the analysis
AnalysisRuns == ~analysis_done /\ analysis_done'

\* the step in which Start New Chat resets the session
SessionReset == analysis_done /\ ~analysis_done'

\* C26: while analysis_done is true the message list is not extended and
\* the session's mood and recommendations are not written; analysis_done
\* goes back to false only with Start New Chat, which empties the list; the
\* mood and the recommendations are written only in the step that sets
\* analysis_done, so the analysis runs at most once between two resets.
C26_AnalysisOncePerSession ==
  [][ /\ analysis_done =>
           /\ messages' = messages \/ (SessionReset /\ messages' = <<>>)
           /\ session_mood' = session_mood
           /\ recommendations' = recommendations
           /\ SessionReset => (appCall'[1].block = "reset" /\ start_time' = <<>>)
      /\ (session_mood' # session_mood \/ recommendations' # recommendations) =>
           AnalysisRuns
      /\ AnalysisRuns => (appCall'[1].block = "chat" /\ appCall'[1].analysed)
    ]_vars

\* after the analysis of a four-message session the user went to the home
\* page and back to the chat page: the list is as the analysis left it
C26_Witness ==
  /\ analysis_done
  /\ page = "chat"
  /\ appCall # <<>>
  /\ appCall[1].block = "home"
  /\ Len(messages) = 4
  /\ session_mood # <<>>

\* the step in which a user message is handled
MessageHandled == Len(messages') > Len(messages)

\* C27 as stated: analysis_done becomes true only while handling a message
\* that was submitted at least one minute after start_time.
C27_Original ==
  [][ AnalysisRuns => appCall'[1].at - start_time'[1] >= OneMinute ]_vars

\* C27 amended: start_time is set, to the time of submission, by the first
\* message of a session and changes again only with the reset; analysis_done
\* becomes true only in a step that handles a user message, and exactly when
\* the clock read after the assistant's reply is at least one minute past
\* start_time, whenever the message itself was submitted.
C27_TimerAndTrigger ==
  [][ /\ start_time # <<>> =>
           start_time' = start_time \/ (SessionReset /\ start_time' = <<>>)
      /\ (start_time = <<>> /\ start_time' # <<>>) =>
           /\ messages = <<>>
           /\ MessageHandled
           /\ start_time'[1] = appCall'[1].at
      /\ AnalysisRuns => MessageHandled
      /\ MessageHandled =>
           /\ appCall'[1].block = "chat"
           /\ appCall'[1].at <= now'
           /\ start_time'[1] <= appCall'[1].at
           /\ analysis_done' <=> (now' - start_time'[1] >= OneMinute)
    ]_vars

\* the second message of a session was submitted 30 seconds after the first;
\* the reply came 60 seconds after the first, and the analysis ran
C27_Witness ==
  /\ analysis_done
  /\ Len(messages) = 4
  /\ appCall # <<>>
  /\ appCall[1].block = "chat"
  /\ appCall[1].analysed
  /\ appCall[1].at - start_time[1] < OneMinute
  /\ now - start_time[1] >= OneMinute

\* user, assistant, user, assistant, ...
Alternates(msgs) ==
  /\ Len(msgs) % 2 = 0
  /\ \A i \in 1..Len(msgs) :
       msgs[i].role = IF i % 2 = 1 THEN "user" ELSE "assistant"

\* C28: every handled user message appends the user turn and then one
\* assistant turn to the message list, the assistant turn being a canned
\* reply when there is no client or the reply call fails; the list always
\* has even length and alternates user, assistant, starting with user.
C28_TwoEntriesPerMessage ==
  /\ []Alternates(messages)
  /\ [][ MessageHandled =>
           /\ Len(messages') = Len(messages) + 2
           /\ IsPrefix(messages, messages')
           /\ messages'[Len(messages) + 1].role = "user"
           /\ messages'[Len(messages) + 2].role = "assistant"
           /\ ~hasClient => messages'[Len(messages) + 2].content = "canned"
           /\ appCall'[1].raised \in {"none", db_lookup}
       ]_vars

\* with a client, a first message was answered by the oracle and a second,
\* whose reply call failed, by a canned reply
C28_Witness ==
  /\ hasClient
  /\ Len(messages) = 4
  /\ messages[2].content = "reply"
  /\ messages[4].content = "canned"

\* C29: Start New Chat empties the message list, unsets start_time and
\* clears analysis_done; it leaves the page, the two files of the store, the
\* clock and the session's mood and recommendations as they are.
C29_ResetFrame ==
  [][ (SessionReset \/ (appCall' # appCall /\ appCall'[1].block = "reset")) =>
        /\ analysis_done
        /\ page = "chat"
        /\ messages' = <<>>
        /\ start_time' = <<>>
        /\ analysis_done' = FALSE
        /\ UNCHANGED <<page, conversations_file, recommendations_file, now,
                       session_mood, recommendations>>
    ]_vars

\* the session of a finished analysis has just been reset
C29_Witness ==
  /\ appCall # <<>>
  /\ appCall[1].block = "reset"
  /\ page = "chat"
  /\ messages = <<>>
  /\ start_time = <<>>
  /\ ~analysis_done
  /\ session_mood # <<>>
  /\ Stored(recommendations_file) # <<>>

\* ------------------------------------------------------------ concurrent saves
\* both save calls have read the file without a failure and returned True
BothSaved ==
  \A p \in Sessions :
    savers[p].pc = "done" /\ savers[p].returned /\ ~savers[p].read_failed

\* C30: when the save calls of two sessions both return True, no read or
\* write having failed, the file holds both sessions' records, however
\* their read and write steps interleaved.
C30_NoLostUpdate ==
  BothSaved =>
    \A p \in Sessions :
      \E i \in 1..Len(Stored(FileOf(savers[p].op))) :
        Stored(FileOf(savers[p].op))[i] = savers[p].record[1]
====
